---- MODULE Spec2Model ----
(***************************************************************************)
(* Model of the YouTube Watch Logger extension: the background service     *)
(* worker (background.js: dedup guard, retrying metadata fetch, category   *)
(* cache, bounded log store, intake orchestrator, message handler) and the *)
(* popup's clear / playlist handlers (popup.js).                           *)
(*                                                                         *)
(* JavaScript values are encoded as follows.                               *)
(*   - A nullable value is a sequence of length <= 1: Null is <<>> (null   *)
(*     or undefined) and Some(x) is <<x>>.                                 *)
(*   - A duration string (contentDetails.duration) is a sequence of        *)
(*     one-character strings.                                              *)
(*   - A URL is a sequence of chunks of text; String.includes(seg) is      *)
(*     "some chunk is seg".                                                *)
(*   - A Date is its epoch time in ms; the ISO string written by           *)
(*     toISOString is the record of its date and time fields.              *)
(***************************************************************************)
EXTENDS Integers, Sequences, FiniteSets, TLC

\* ------------------------------------------------------------ bounds
\* Number of intake events (YTL_VIDEO messages) the content script sends.
MaxIntakes == 2
\* The clock runs over MaxSpans dedup windows, MaxOffset ms past each.
MaxSpans == 1
MaxOffset == 2
\* Largest capacity and number of appends of the log-store specification.
MaxCap == 3
MaxAppends == 5
\* Number of clicks on the popup's generatePlaylist button.
MaxLinks == 2
\* Number of clicks on the popup's clear button.
MaxClears == 2
\* Longest duration, in seconds, handed to inferIsShorts.
MaxDuration == 90
\* Largest number written in a field of a duration string (besides 45).
MaxField == 3

\* ------------------------------------------------------------ constants
\* recentlyLogged(profile, videoId, ttlMinutes = 120)
TtlMinutes == 120
\* fetchVideoMetadataRich(videoId, apiKey, { maxRetries = 3 })
DefaultMaxRetries == 3
\* sleep(300 * attempt)
BackoffMs == 300
\* setLogEntry(entry, maxEntries = 5000)
DefaultMaxEntries == 5000
\* ids.slice(0, 50)
PlaylistMax == 50
\* ageMin = (Date.now() - ...) / 60000
MsPerMinute == 60000

\* ------------------------------------------------------------ values
Null == <<>>
Some(x) == <<x>>
\* JavaScript truthiness of a nullable string: null, undefined and "" are falsy.
Truthy(v) == v # Null /\ v[1] # ""
\* x || null for a nullable string
OrNull(v) == IF Truthy(v) THEN v ELSE Null

\* Date.prototype.toISOString: the UTC fields of the instant, to the ms.
ToISOString(ms) ==
  [ day    |-> ms \div 86400000,
    hour   |-> (ms \div 3600000) % 24,
    minute |-> (ms \div 60000) % 60,
    second |-> (ms \div 1000) % 60,
    milli  |-> ms % 1000 ]

\* new Date(iso).getTime()
DateGetTime(iso) ==
  (((iso.day * 24 + iso.hour) * 60 + iso.minute) * 60 + iso.second) * 1000 + iso.milli

\* String.prototype.includes on a URL given as chunks
Includes(url, seg) == \E k \in 1..Len(url) : url[k] = seg

Max(S) == CHOOSE m \in S : \A n \in S : n <= m
Min(S) == CHOOSE m \in S : \A n \in S : m <= n

\* ------------------------------------------------------------ parseISODurationToSeconds
Digits == <<"0", "1", "2", "3", "4", "5", "6", "7", "8", "9">>
IsDigit(c) == \E d \in 1..10 : Digits[d] = c
DigitVal(c) == (CHOOSE d \in 1..10 : Digits[d] = c) - 1

\* parseInt(text, 10) of a run of digits
RECURSIVE parseInt(_)
parseInt(text) ==
  IF text = <<>> THEN 0
  ELSE 10 * parseInt(SubSeq(text, 1, Len(text) - 1)) + DigitVal(text[Len(text)])

\* End of the longest run of digits of s that starts at position p (p - 1 if none).
DigitRunEnd(s, p) ==
  Max({ j \in (p - 1)..Len(s) : \A k \in p..j : IsDigit(s[k]) })

\* One optional group (?:(\d+)U)? tried at position p: the capture and the
\* position after it, or no capture and the same position.
DurGroup(s, p, unit) ==
  LET j == DigitRunEnd(s, p) IN
  IF j >= p /\ j + 1 <= Len(s) /\ s[j + 1] = unit
  THEN [text |-> SubSeq(s, p, j), next |-> j + 2]
  ELSE [text |-> <<>>, next |-> p]

\* /PT(?:(\d+)H)?(?:(\d+)M)?(?:(\d+)S)?/.exec(iso || ""): the search is not
\* anchored, so it matches at the leftmost "PT"; every group is optional.
parseISODurationToSeconds(iso) ==
  LET starts == { p \in 1..(Len(iso) - 1) : iso[p] = "P" /\ iso[p + 1] = "T" } IN
  IF starts = {} THEN Null
  ELSE LET p0  == Min(starts) + 2
           h   == DurGroup(iso, p0, "H")
           min == DurGroup(iso, h.next, "M")
           s   == DurGroup(iso, min.next, "S")
       IN  Some(parseInt(h.text) * 3600 + parseInt(min.text) * 60 + parseInt(s.text))

\* ------------------------------------------------------------ inferIsShorts
\* inferIsShorts with the duration compared by < instead of <=.
inferIsShorts_under60(url, durationSeconds) ==
  IF url # <<>> /\ Includes(url, "/shorts/") THEN TRUE
  ELSE IF durationSeconds # Null /\ durationSeconds[1] < 60 THEN TRUE
  ELSE FALSE

inferIsShorts(url, durationSeconds) ==
  IF url # <<>> /\ Includes(url, "/shorts/") THEN TRUE
  ELSE IF durationSeconds # Null /\ durationSeconds[1] <= 60 THEN TRUE
  ELSE FALSE

\* ------------------------------------------------------------ category cache
\* const cacheKey = `${regionCode}:${categoryId}`
cacheKey(regionCode, categoryId) == regionCode \o ":" \o categoryId

\* A cache that remembers names only, not the "not found" outcome.
cacheSet_namesOnly(cache, key, name) ==
  IF name = Null THEN cache ELSE (key :> name) @@ cache

\* categoryNameCache.set(cacheKey, name)
cacheSet(cache, key, name) == (key :> name) @@ cache

\* ------------------------------------------------------------ dedup guard
\* const key = `${profile}:${videoId}`
dedupKey(profile, videoId) == profile \o ":" \o videoId

\* The callback of recentlyLogged on the stored lastLogged object, at time
\* nowMs.  ageMin = ageMs / 60000 is compared with ttlMinutes in exact
\* arithmetic: ageMs / 60000 < ttlMinutes iff ageMs < ttlMinutes * 60000.
recentlyLogged(stored, profile, videoId, nowMs, ttlMinutes) ==
  LET key == dedupKey(profile, videoId) IN
  IF key \notin DOMAIN stored THEN FALSE
  ELSE (nowMs - DateGetTime(stored[key])) < ttlMinutes * MsPerMinute

\* The object markLogged writes back: the stored one with the key upserted to
\* new Date().toISOString().
markLogged(stored, profile, videoId, nowMs) ==
  LET key == dedupKey(profile, videoId) IN
  [k \in DOMAIN stored \cup {key} |-> IF k = key THEN ToISOString(nowMs) ELSE stored[k]]

\* ------------------------------------------------------------ log store
\* Array.prototype.splice(start, deleteCount) with no inserted items: the array
\* without deleteCount elements from (0-based) index start.
splice(list, start, deleteCount) ==
  SubSeq(list, 1, start) \o SubSeq(list, start + deleteCount + 1, Len(list))

\* setLogEntry trimming at the wrong end: list.splice(maxEntries).
setLogEntry_dropNewest(stored, entry, maxEntries) ==
  LET list == Append(stored, entry) IN
  IF Len(list) > maxEntries THEN splice(list, maxEntries, Len(list) - maxEntries) ELSE list

\* The list setLogEntry writes back: the stored one with the entry pushed and
\* the oldest entries trimmed beyond the cap.
setLogEntry(stored, entry, maxEntries) ==
  LET list == Append(stored, entry) IN
  IF Len(list) > maxEntries THEN splice(list, 0, Len(list) - maxEntries) ELSE list

\* ------------------------------------------------------------ inputs
IntakeIds == 1..MaxIntakes
VideoIds == {"v1", "v2"}
Profiles == {"Child", "Teen"}
ApiKeys == {"", "key"}

\* location.href of a watch page and of a shorts page for a video id.
WatchUrl(videoId) == <<"https://www.youtube.com", "/watch", "?v=", videoId>>
ShortsUrl(videoId) == <<"https://www.youtube.com", "/shorts/", videoId>>
\* The page each video id is watched on: v1 on a watch page, v2 as a short.
UrlOf(videoId) == IF videoId = "v2" THEN ShortsUrl(videoId) ELSE WatchUrl(videoId)

\* Video resources the videos.list endpoint may answer with (items[0]).
VideoFull ==
  [ id |-> "v1",
    snippet |-> [ title |-> Some("Song"), description |-> Some("A song"),
                  channelId |-> Some("UC1"), channelTitle |-> Some("Band"),
                  categoryId |-> Some("10"), liveBroadcastContent |-> Null ],
    contentDetails |-> [ duration |-> <<"P", "T", "4", "5", "S">>, caption |-> Some("true") ] ]
VideoLong ==
  [ id |-> "v2",
    snippet |-> [ title |-> Some(""), description |-> Null,
                  channelId |-> Null, channelTitle |-> Null,
                  categoryId |-> Some("22"), liveBroadcastContent |-> Some("live") ],
    contentDetails |-> [ duration |-> <<"P", "T", "1", "M", "3", "0", "S">>, caption |-> Some("false") ] ]
VideoBare ==
  [ id |-> "v2",
    snippet |-> [ title |-> Null, description |-> Null,
                  channelId |-> Some("UC1"), channelTitle |-> Null,
                  categoryId |-> Null, liveBroadcastContent |-> Null ],
    contentDetails |-> [ duration |-> <<>>, caption |-> Null ] ]
Videos == {VideoFull, VideoLong, VideoBare}

\* Outcomes of one fetch of an endpoint: the transport fails (fetch or
\* res.json() rejects), the response is not ok, or it is ok with items[0]
\* (Null when the item list is empty).
FetchOutcome(items) ==
  {[kind |-> "throw", item |-> Null], [kind |-> "http_error", item |-> Null]}
    \cup {[kind |-> "ok", item |-> it] : it \in items}
VideoOutcomes == FetchOutcome({Null} \cup {Some(v) : v \in Videos})

\* items[0].snippet.title of videoCategories.list
CategoryOutcomes == FetchOutcome({Null, Some("Music")})

\* items[0] of channels.list
ChannelFull ==
  [ id |-> "UC1", snippet |-> [ customUrl |-> Some("@band"), country |-> Null ] ]
ChannelOutcomes == FetchOutcome({Null, Some(ChannelFull)})

\* ------------------------------------------------------------ state
VARIABLES
  now,                \* Date.now(), in ms
  cfg,                \* chrome.storage.sync: {apiKey, profile}
  watchLog,           \* chrome.storage.local: watchLog
  lastLogged,         \* chrome.storage.local: lastLogged (key -> ISO timestamp)
  playlistLinks,      \* chrome.storage.local: playlistLinks
  categoryNameCache,  \* the Map categoryNameCache (cacheKey -> nullable name)
  task,               \* the logYouTubeWatch call of each intake
  reply,              \* what sendResponse answered to each YTL_VIDEO message
  outbox,             \* messages sent with chrome.runtime.sendMessage
  popup,              \* the popup's generatePlaylist handler, one per click
  markedAt,           \* history: <<profile, videoId>> -> time of its last markLogged
  catHist,            \* history: cacheKey -> lookups made, network calls issued, answered
  call                \* history: the last direct call of a store operation

vars == <<now, cfg, watchLog, lastLogged, playlistLinks, categoryNameCache,
          task, reply, outbox, popup, markedAt, catHist, call>>

\* The empty function (an empty object, an empty Map).
EmptyMap == [k \in {} |-> Null]

\* A logYouTubeWatch call that has not started.
IdleTask ==
  [ pc |-> "idle", videoId |-> "", url |-> <<>>, apiKey |-> "", profile |-> "",
    attempt |-> 0, meta |-> Null, categoryName |-> Null, channelExtra |-> Null,
    entry |-> Null, list |-> <<>>, toStore |-> EmptyMap,
    err |-> Null, failedAt |-> "", slept |-> <<>>,
    enrichFailed |-> FALSE, trace |-> <<>> ]

\* Clicks on the generatePlaylist button, and one that has not happened.
Clicks == 1..MaxLinks
IdlePopup == [pc |-> "idle", url |-> <<>>, count |-> 0, updated |-> <<>>]
NoCall == [op |-> "none"]

\* The extension freshly installed: nothing stored, nothing cached, no call.
InitStores ==
  /\ now = 0
  /\ cfg = [apiKey |-> "", profile |-> "Child"]
  /\ watchLog = <<>>
  /\ lastLogged = EmptyMap
  /\ playlistLinks = <<>>
  /\ categoryNameCache = EmptyMap
  /\ task = [i \in IntakeIds |-> IdleTask]
  /\ reply = [i \in IntakeIds |-> Null]
  /\ outbox = <<>>
  /\ popup = [k \in Clicks |-> IdlePopup]
  /\ markedAt = EmptyMap
  /\ catHist = EmptyMap

Init == InitStores /\ call = NoCall

\* States in which a logYouTubeWatch call has ended (or will never resume).
EndStates == {"SUPPRESSED", "FAILED", "NOTIFY", "STALLED"}

Did(t, what) == \E k \in 1..Len(t.trace) : t.trace[k] = what
Log(t, what) == [t EXCEPT !.trace = Append(@, what)]

\* ------------------------------------------------------------ logYouTubeWatch
\* logYouTubeWatch returns: its local variables are gone.  What stays of the
\* call is how it ended and the history of what it did.
ended(t, pc) ==
  [t EXCEPT !.pc = pc, !.meta = Null, !.categoryName = Null, !.channelExtra = Null,
            !.entry = Null, !.list = <<>>, !.toStore = EmptyMap]

\* logYouTubeWatch without its try/catch: the error rejects its promise.
catchError_rethrow(t, e) ==
  [ended(t, "REJECTED") EXCEPT !.err = Some(e), !.failedAt = t.pc]

\* catch (err) { console.error("[YTL] Failed to log video:", err); }
catchError(t, e) ==
  [ended(t, "FAILED") EXCEPT !.err = Some(e), !.failedAt = t.pc]

\* The meta object when no API key is set.
FallbackMeta(videoId) ==
  [ videoId |-> videoId, title |-> Null, description |-> Null,
    durationSeconds |-> Null, channelId |-> Null, channelTitle |-> Null,
    categoryId |-> Null, liveContent |-> "none", caption |-> Null ]

\* The object fetchVideoMetadataRich returns for the video resource v.
metaOf(v) ==
  [ videoId |-> v.id,
    title |-> OrNull(v.snippet.title),
    description |-> OrNull(v.snippet.description),
    channelId |-> OrNull(v.snippet.channelId),
    channelTitle |-> OrNull(v.snippet.channelTitle),
    categoryId |-> OrNull(v.snippet.categoryId),
    durationSeconds |-> parseISODurationToSeconds(v.contentDetails.duration),
    liveContent |-> IF Truthy(v.snippet.liveBroadcastContent)
                    THEN v.snippet.liveBroadcastContent[1] ELSE "none",
    caption |-> Some(v.contentDetails.caption = Some("true")) ]

\* The object fetchChannelBasics returns for the channel resource c.
channelExtraOf(c) ==
  [ channelId |-> c.id,
    customUrl |-> OrNull(c.snippet.customUrl),
    channelCountry |-> OrNull(c.snippet.country) ]

\* const entry = { ... }
entryOf(t, nowMs) ==
  LET m == t.meta[1]
      base ==
        [ videoId |-> t.videoId, url |-> t.url, profile |-> t.profile,
          title |-> m.title, description |-> m.description,
          channelId |-> m.channelId, channelTitle |-> m.channelTitle,
          durationSeconds |-> m.durationSeconds,
          isShorts |-> inferIsShorts(t.url, m.durationSeconds),
          liveContent |-> m.liveContent,
          categoryId |-> m.categoryId, categoryName |-> t.categoryName,
          caption |-> m.caption,
          watchedAt |-> ToISOString(nowMs) ]
  IN  IF t.channelExtra # Null
      THEN base @@ ("channelExtra" :> t.channelExtra[1])
      ELSE base

\* An orchestrator that calls markLogged before setLogEntry.
assemble_markFirst(t, nowMs) ==
  [t EXCEPT !.entry = Some(entryOf(t, nowMs)), !.pc = "markLogged_get",
            !.attempt = 0, !.slept = <<>>]

\* Entry assembly, then setLogEntry(entry) up to its storage.local.get.  The
\* retry counter of the fetch, kept while the metadata is enriched, is dropped.
assemble(t, nowMs) ==
  [t EXCEPT !.entry = Some(entryOf(t, nowMs)), !.pc = "setLogEntry_get",
            !.attempt = 0, !.slept = <<>>]

\* const channelExtra = apiKey && meta.channelId ? await fetchChannelBasics(...) : null
\* up to the fetch of fetchChannelBasics (which returns null without a channel id).
channelStage(t, nowMs) ==
  IF t.apiKey # "" /\ Truthy(t.meta[1].channelId)
  THEN Log([t EXCEPT !.pc = "fetchChannelBasics"], "channels.list")
  ELSE assemble([t EXCEPT !.channelExtra = Null], nowMs)

\* const categoryName = apiKey ? await getCategoryName(meta.categoryId, apiKey, "US") : null
\* up to the fetch of getCategoryName: no category id gives null, a cached key
\* gives the cached value, and otherwise the network call is issued.
categoryStage(t, cache, nowMs) ==
  IF t.apiKey = "" THEN channelStage([t EXCEPT !.categoryName = Null], nowMs)
  ELSE IF ~Truthy(t.meta[1].categoryId)
  THEN channelStage([t EXCEPT !.categoryName = Null], nowMs)
  ELSE LET key == cacheKey("US", t.meta[1].categoryId[1]) IN
       IF key \in DOMAIN cache
       THEN channelStage([t EXCEPT !.categoryName = cache[key]], nowMs)
       ELSE Log([t EXCEPT !.pc = "getCategoryName"], "videoCategories.list")

\* An orchestrator that fetches the metadata whether or not a key is set.
metaStage_alwaysFetch(t, cache, nowMs) ==
  Log([t EXCEPT !.pc = "fetch", !.attempt = 0], "videos.list")

\* const meta = apiKey ? await fetchVideoMetadataRich(videoId, apiKey) : { ... }
\* up to the first fetch of fetchVideoMetadataRich.
metaStage(t, cache, nowMs) ==
  IF t.apiKey # ""
  THEN Log([t EXCEPT !.pc = "fetch", !.attempt = 0], "videos.list")
  ELSE categoryStage([t EXCEPT !.meta = Some(FallbackMeta(t.videoId))], cache, nowMs)

\* A fetch that, out of retries, returns the minimal metadata instead of throwing.
retryOrThrow_fallback(t, e, maxRetries) ==
  IF t.attempt >= maxRetries
  THEN assemble([t EXCEPT !.meta = Some(FallbackMeta(t.videoId))], 0)
  ELSE LET a == t.attempt + 1 IN
       [t EXCEPT !.attempt = a, !.slept = Append(@, BackoffMs * a), !.pc = "sleep"]

\* A retry with an exponential backoff: 300, 600, 1200 ms.
retryOrThrow_exponential(t, e, maxRetries) ==
  IF t.attempt >= maxRetries THEN catchError(t, e)
  ELSE LET a == t.attempt + 1 IN
       [t EXCEPT !.attempt = a, !.slept = Append(@, BackoffMs * (2 ^ (a - 1))), !.pc = "sleep"]

\* The catch block of fetchVideoMetadataRich after a failed attempt.
retryOrThrow(t, e, maxRetries) ==
  IF t.attempt >= maxRetries THEN catchError(t, e)
  ELSE LET a == t.attempt + 1 IN
       [t EXCEPT !.attempt = a, !.slept = Append(@, BackoffMs * a), !.pc = "sleep"]

\* ------------------------------------------------------------ intake steps
\* History of the category lookups of a cache key.
NoCatHist == [lookups |-> 0, calls |-> 0, returned |-> 0, answered |-> FALSE]
CatHistOf(h, key) == IF key \in DOMAIN h THEN h[key] ELSE NoCatHist
\* A lookup of the key starts (getCategoryName passes its categoryId test);
\* called tells whether it went to the network (a cache hit returns at once).
CatLookup(h, key, called) ==
  LET r == CatHistOf(h, key) IN
  (key :> [r EXCEPT !.lookups = @ + 1,
                    !.calls = IF called THEN @ + 1 ELSE @,
                    !.returned = IF called THEN @ ELSE @ + 1]) @@ h
\* A lookup of the key returns from its network call, with a success response or not.
CatReturn(h, key, success) ==
  LET r == CatHistOf(h, key) IN
  (key :> [r EXCEPT !.returned = @ + 1, !.answered = @ \/ success]) @@ h

SetTask(i, t) == task' = [task EXCEPT ![i] = t]

\* A logYouTubeWatch that starts with the dedup check, on the default profile,
\* without reading the configuration first.
HandleVideoMessage_dedupFirst(i, videoId, url) ==
  /\ task[i].pc = "idle"
  /\ IF i = 1 THEN TRUE ELSE task[i - 1].pc # "idle"
  /\ SetTask(i, [IdleTask EXCEPT !.pc = "recentlyLogged", !.videoId = videoId, !.url = url,
                                 !.profile = "Child"])
  /\ reply' = [reply EXCEPT ![i] = Some([ok |-> TRUE])]
  /\ UNCHANGED <<now, cfg, watchLog, lastLogged, playlistLinks, categoryNameCache,
                 outbox, popup, markedAt, catHist, call>>

\* The onMessage listener on a YTL_VIDEO message of the content script: it
\* starts logYouTubeWatch (which runs up to the storage.sync.get of getConfig)
\* without awaiting it, and answers {ok: true} at once.
HandleVideoMessage(i, videoId, url) ==
  /\ task[i].pc = "idle"
  /\ IF i = 1 THEN TRUE ELSE task[i - 1].pc # "idle"
  /\ SetTask(i, [IdleTask EXCEPT !.pc = "getConfig", !.videoId = videoId, !.url = url])
  /\ reply' = [reply EXCEPT ![i] = Some([ok |-> TRUE])]
  /\ UNCHANGED <<now, cfg, watchLog, lastLogged, playlistLinks, categoryNameCache,
                 outbox, popup, markedAt, catHist, call>>

\* The callback of getConfig, then recentlyLogged up to its storage.local.get.
ConfigRead(i) ==
  /\ task[i].pc = "getConfig"
  /\ SetTask(i, Log([task[i] EXCEPT !.apiKey = cfg.apiKey, !.profile = cfg.profile,
                                    !.pc = "recentlyLogged"], "config"))
  /\ UNCHANGED <<now, cfg, watchLog, lastLogged, playlistLinks, categoryNameCache,
                 reply, outbox, popup, markedAt, catHist, call>>

\* A check with a sliding window: a suppressed intake marks the key again.
DedupCheck_slidingWindow(i) ==
  /\ task[i].pc = "recentlyLogged"
  /\ LET t == Log(task[i], "dedup") IN
     IF recentlyLogged(lastLogged, t.profile, t.videoId, now, TtlMinutes)
     THEN /\ SetTask(i, ended(t, "SUPPRESSED"))
          /\ lastLogged' = markLogged(lastLogged, t.profile, t.videoId, now)
     ELSE SetTask(i, metaStage(t, categoryNameCache, now)) /\ UNCHANGED lastLogged
  /\ UNCHANGED <<now, cfg, watchLog, playlistLinks, categoryNameCache,
                 reply, outbox, popup, markedAt, catHist, call>>

\* A check that reserves the key: an intake that passes marks it at once.
DedupCheck_reserve(i) ==
  /\ task[i].pc = "recentlyLogged"
  /\ LET t == Log(task[i], "dedup") IN
     IF recentlyLogged(lastLogged, t.profile, t.videoId, now, TtlMinutes)
     THEN SetTask(i, ended(t, "SUPPRESSED")) /\ UNCHANGED lastLogged
     ELSE /\ SetTask(i, metaStage(t, categoryNameCache, now))
          /\ lastLogged' = markLogged(lastLogged, t.profile, t.videoId, now)
  /\ UNCHANGED <<now, cfg, watchLog, playlistLinks, categoryNameCache,
                 reply, outbox, popup, markedAt, catHist, call>>

\* The callback of recentlyLogged: a suppressed intake returns, any other goes
\* on to the metadata.
DedupCheck(i) ==
  /\ task[i].pc = "recentlyLogged"
  /\ LET t == Log(task[i], "dedup") IN
     IF recentlyLogged(lastLogged, t.profile, t.videoId, now, TtlMinutes)
     THEN SetTask(i, ended(t, "SUPPRESSED"))
     ELSE SetTask(i, metaStage(t, categoryNameCache, now))
  /\ UNCHANGED <<now, cfg, watchLog, lastLogged, playlistLinks, categoryNameCache,
                 reply, outbox, popup, markedAt, catHist, call>>

\* One attempt of fetchVideoMetadataRich answers.
FetchResponse(i, o) ==
  /\ task[i].pc = "fetch"
  /\ LET t == task[i]
         \* history: this was the last attempt the retry bound allows
         seen == IF t.attempt >= DefaultMaxRetries THEN Log(t, "fetch.lastAttemptFailed") ELSE t
     IN
     CASE o.kind = "throw" ->
            /\ SetTask(i, retryOrThrow(seen, "TypeError: Failed to fetch", DefaultMaxRetries))
            /\ UNCHANGED catHist
       [] o.kind = "http_error" ->
            /\ SetTask(i, retryOrThrow(seen, "videos.list status", DefaultMaxRetries))
            /\ UNCHANGED catHist
       [] o.kind = "ok" /\ o.item = Null ->
            /\ SetTask(i, retryOrThrow(seen, "Video not found", DefaultMaxRetries))
            /\ UNCHANGED catHist
       [] OTHER ->
            LET m == metaOf(o.item[1])
                t2 == categoryStage([t EXCEPT !.meta = Some(m)], categoryNameCache, now)
            IN  /\ SetTask(i, t2)
                /\ catHist' = IF Truthy(m.categoryId)
                               THEN CatLookup(catHist, cacheKey("US", m.categoryId[1]),
                                              t2.pc = "getCategoryName")
                               ELSE catHist
  /\ UNCHANGED <<now, cfg, watchLog, lastLogged, playlistLinks, categoryNameCache,
                 reply, outbox, popup, markedAt, call>>

\* await sleep(300 * attempt) ends: the loop fetches again.
SleepDone(i) ==
  /\ task[i].pc = "sleep"
  /\ SetTask(i, [task[i] EXCEPT !.pc = "fetch"])
  /\ UNCHANGED <<now, cfg, watchLog, lastLogged, playlistLinks, categoryNameCache,
                 reply, outbox, popup, markedAt, catHist, call>>

\* The fetch of getCategoryName answers.
CategoryResponse(i, o) ==
  /\ task[i].pc = "getCategoryName"
  /\ LET t == task[i]
         key == cacheKey("US", t.meta[1].categoryId[1])
         name == OrNull(o.item)
     IN
     CASE o.kind = "throw" ->
            /\ SetTask(i, catchError([t EXCEPT !.enrichFailed = TRUE], "TypeError: Failed to fetch"))
            /\ UNCHANGED <<categoryNameCache, catHist>>
       [] o.kind = "http_error" ->
            /\ SetTask(i, channelStage([t EXCEPT !.categoryName = Null, !.enrichFailed = TRUE], now))
            /\ catHist' = CatReturn(catHist, key, FALSE)
            /\ UNCHANGED categoryNameCache
       [] OTHER ->
            /\ SetTask(i, channelStage([t EXCEPT !.categoryName = name, !.enrichFailed = (name = Null)], now))
            /\ categoryNameCache' = cacheSet(categoryNameCache, key, name)
            /\ catHist' = CatReturn(catHist, key, TRUE)
  /\ UNCHANGED <<now, cfg, watchLog, lastLogged, playlistLinks,
                 reply, outbox, popup, markedAt, call>>

\* The fetch of fetchChannelBasics answers.
ChannelResponse(i, o) ==
  /\ task[i].pc = "fetchChannelBasics"
  /\ LET t == task[i] IN
     CASE o.kind = "throw" ->
            SetTask(i, catchError([t EXCEPT !.enrichFailed = TRUE], "TypeError: Failed to fetch"))
       [] o.kind = "http_error" ->
            SetTask(i, assemble([t EXCEPT !.channelExtra = Null, !.enrichFailed = TRUE], now))
       [] o.kind = "ok" /\ o.item = Null ->
            SetTask(i, assemble([t EXCEPT !.channelExtra = Null, !.enrichFailed = TRUE], now))
       [] OTHER ->
            SetTask(i, assemble([t EXCEPT !.channelExtra = Some(channelExtraOf(o.item[1]))], now))
  /\ UNCHANGED <<now, cfg, watchLog, lastLogged, playlistLinks, categoryNameCache,
                 reply, outbox, popup, markedAt, catHist, call>>

\* The callback of setLogEntry's storage.local.get: push, trim, and issue the set.
LogGet(i) ==
  /\ task[i].pc = "setLogEntry_get"
  /\ SetTask(i, [task[i] EXCEPT !.list = setLogEntry(watchLog, task[i].entry[1], DefaultMaxEntries),
                                !.pc = "setLogEntry_set"])
  /\ UNCHANGED <<now, cfg, watchLog, lastLogged, playlistLinks, categoryNameCache,
                 reply, outbox, popup, markedAt, catHist, call>>

\* History: the write of list drops entries of the stored log, which were
\* appended to it after list was read from it.
Clobbers(stored, list) ==
  LET n == Len(list) - 1 IN
  /\ Len(stored) > n
  /\ SubSeq(stored, 1, n) = SubSeq(list, 1, n)

\* An append whose write re-reads the log: push and set in one step.
LogSet_merge(i) ==
  /\ task[i].pc = "setLogEntry_set"
  /\ watchLog' = setLogEntry(watchLog, task[i].entry[1], DefaultMaxEntries)
  /\ LET t == IF Clobbers(watchLog, task[i].list) THEN Log(task[i], "append.clobber") ELSE task[i] IN
     SetTask(i, Log([t EXCEPT !.pc = "markLogged_get", !.list = <<>>], "append"))
  /\ UNCHANGED <<now, cfg, lastLogged, playlistLinks, categoryNameCache,
                 reply, outbox, popup, markedAt, catHist, call>>

\* setLogEntry's storage.local.set completes; markLogged issues its get.
LogSet(i) ==
  /\ task[i].pc = "setLogEntry_set"
  /\ watchLog' = task[i].list
  /\ LET t == IF Clobbers(watchLog, task[i].list) THEN Log(task[i], "append.clobber") ELSE task[i] IN
     SetTask(i, Log([t EXCEPT !.pc = "markLogged_get", !.list = <<>>], "append"))
  /\ UNCHANGED <<now, cfg, lastLogged, playlistLinks, categoryNameCache,
                 reply, outbox, popup, markedAt, catHist, call>>

\* The callback of markLogged's storage.local.get: upsert the key, issue the set.
MarkGet(i) ==
  /\ task[i].pc = "markLogged_get"
  /\ SetTask(i, [task[i] EXCEPT !.toStore = markLogged(lastLogged, task[i].profile, task[i].videoId, now),
                                !.pc = "markLogged_set"])
  /\ UNCHANGED <<now, cfg, watchLog, lastLogged, playlistLinks, categoryNameCache,
                 reply, outbox, popup, markedAt, catHist, call>>

\* markLogged's storage.local.set completes; the YTL_LOGGED message is sent.
MarkSet(i) ==
  /\ task[i].pc = "markLogged_set"
  /\ lastLogged' = task[i].toStore
  /\ outbox' = Append(outbox, [type |-> "YTL_LOGGED", entry |-> task[i].entry[1]])
  /\ SetTask(i, Log(Log(ended(task[i], "NOTIFY"), "mark"), "notify"))
  /\ UNCHANGED <<now, cfg, watchLog, playlistLinks, categoryNameCache,
                 reply, popup, markedAt, catHist, call>>

\* ------------------------------------------------------------ other handlers
\* YTL_SET_CONFIG, or the options page saving: the configuration changes.
SetConfig(apiKey, profile) ==
  /\ cfg' = [apiKey |-> apiKey, profile |-> IF profile = "" THEN "Child" ELSE profile]
  /\ cfg' # cfg
  /\ UNCHANGED <<now, watchLog, lastLogged, playlistLinks, categoryNameCache,
                 task, reply, outbox, popup, markedAt, catHist, call>>

\* A clear that resets the log alone: storage.local.set({ watchLog: [] }).
ClearWrite_logOnly ==
  /\ watchLog' = <<>>
  /\ UNCHANGED playlistLinks

\* chrome.storage.local.set({ watchLog: [], playlistLinks: [] })
ClearWrite ==
  /\ watchLog' = <<>>
  /\ playlistLinks' = <<>>

\* The popup's clear button (confirmed): one storage.local.set of both keys.
Clear ==
  /\ ClearWrite
  /\ UNCHANGED <<now, cfg, lastLogged, categoryNameCache,
                 task, reply, outbox, popup, markedAt, catHist, call>>

\* Time passes: a whole dedup window.
WindowMs == TtlMinutes * MsPerMinute
TickWindow ==
  /\ now + WindowMs <= MaxSpans * WindowMs
  /\ now' = now + WindowMs
  /\ UNCHANGED <<cfg, watchLog, lastLogged, playlistLinks, categoryNameCache,
                 task, reply, outbox, popup, markedAt, catHist, call>>

Intake(i) ==
  \/ \E v \in VideoIds : HandleVideoMessage(i, v, UrlOf(v))
  \/ ConfigRead(i)
  \/ DedupCheck(i)
  \/ \E o \in VideoOutcomes : FetchResponse(i, o)
  \/ SleepDone(i)
  \/ \E o \in CategoryOutcomes : CategoryResponse(i, o)
  \/ \E o \in ChannelOutcomes : ChannelResponse(i, o)
  \/ LogGet(i)
  \/ LogSet(i)
  \/ MarkGet(i)
  \/ MarkSet(i)

\* The steps of an intake on the path without an API key.
IntakeNoKey(i) ==
  \/ \E v \in VideoIds : HandleVideoMessage(i, v, UrlOf(v))
  \/ ConfigRead(i)
  \/ DedupCheck(i)
  \/ LogGet(i)
  \/ LogSet(i)
  \/ MarkGet(i)
  \/ MarkSet(i)

Next ==
  \/ \E i \in IntakeIds : Intake(i)
  \/ \E k \in ApiKeys : SetConfig(k, "")
  \/ Clear
  \/ TickWindow

Spec == Init /\ [][Next]_vars

\* ------------------------------------------------------------ calls that return
\* A call the intake is waiting for returns: a storage call with its result, a
\* network call with a response or a failure, a sleep with its timeout.
Returns(i) ==
  \/ ConfigRead(i)
  \/ DedupCheck(i)
  \/ \E o \in VideoOutcomes : FetchResponse(i, o)
  \/ SleepDone(i)
  \/ \E o \in CategoryOutcomes : CategoryResponse(i, o)
  \/ \E o \in ChannelOutcomes : ChannelResponse(i, o)
  \/ LogGet(i)
  \/ LogSet(i)
  \/ MarkGet(i)
  \/ MarkSet(i)

\* The extension when every call an intake makes eventually returns.
SpecLive == Init /\ [][Next]_vars /\ \A i \in IntakeIds : WF_vars(Returns(i))

\* ------------------------------------------------------------ storage failures
\* A chrome.storage call that fails sets chrome.runtime.lastError and invokes
\* the callback without a result.  No callback of background.js reads
\* lastError, and no promise built around a storage call has a reject path.

\* A read fails.  getConfig resolves with undefined and the destructuring in
\* logYouTubeWatch throws inside its try block.  The callbacks of
\* recentlyLogged, setLogEntry and markLogged destructure their own parameter:
\* they throw before resolving, so the awaited promise never settles.
StorageGetFails(i) ==
  /\ task[i].pc \in {"getConfig", "recentlyLogged", "setLogEntry_get", "markLogged_get"}
  /\ LET t == Log(task[i], "storage.lastError") IN
     IF t.pc = "getConfig"
     THEN SetTask(i, catchError(t, "TypeError: Cannot destructure"))
     ELSE SetTask(i, [ended(t, "STALLED") EXCEPT !.failedAt = t.pc])
  /\ UNCHANGED <<now, cfg, watchLog, lastLogged, playlistLinks, categoryNameCache,
                 reply, outbox, popup, markedAt, catHist, call>>

\* A write fails (for instance over quota): nothing is stored, and the callback
\* resolves the promise all the same, so logYouTubeWatch goes on.
StorageSetFails(i) ==
  /\ task[i].pc \in {"setLogEntry_set", "markLogged_set"}
  /\ LET t == task[i] IN
     IF t.pc = "setLogEntry_set"
     THEN /\ SetTask(i, Log([t EXCEPT !.pc = "markLogged_get", !.list = <<>>], "append.lastError"))
          /\ UNCHANGED outbox
     ELSE /\ SetTask(i, Log(Log(ended(t, "NOTIFY"), "mark.lastError"), "notify"))
          /\ outbox' = Append(outbox, [type |-> "YTL_LOGGED", entry |-> t.entry[1]])
  /\ UNCHANGED <<now, cfg, watchLog, lastLogged, playlistLinks, categoryNameCache,
                 reply, popup, markedAt, catHist, call>>

NextF ==
  \/ Next
  \/ \E i \in IntakeIds : StorageGetFails(i)
  \/ \E i \in IntakeIds : StorageSetFails(i)

\* The extension with a persistent store that may fail.
SpecF == Init /\ [][NextF]_vars

\* ------------------------------------------------------------ log store alone
\* setLogEntry(entry, N) called again and again, each call after the one
\* before has completed, for a capacity N.
FallbackEntry(videoId, nowMs) ==
  entryOf([IdleTask EXCEPT !.videoId = videoId, !.url = UrlOf(videoId), !.profile = "Child",
                           !.meta = Some(FallbackMeta(videoId))], nowMs)

InitLog ==
  /\ InitStores
  /\ \E c \in 1..MaxCap :
       call = [op |-> "setLogEntry", pc |-> "ready", cap |-> c, count |-> 0,
               before |-> <<>>, entry |-> Null, list |-> <<>>]

\* The call and the callback of its storage.local.get.
AppendGet(videoId) ==
  /\ call.op = "setLogEntry" /\ call.pc = "ready"
  /\ call.count < MaxAppends
  /\ LET e == FallbackEntry(videoId, now) IN
     call' = [call EXCEPT !.pc = "set", !.count = @ + 1, !.before = watchLog,
                          !.entry = Some(e), !.list = setLogEntry(watchLog, e, call.cap)]
  /\ now' = now + 1
  /\ UNCHANGED <<cfg, watchLog, lastLogged, playlistLinks, categoryNameCache,
                 task, reply, outbox, popup, markedAt, catHist>>

\* Its storage.local.set completes and the promise resolves.
AppendSet ==
  /\ call.op = "setLogEntry" /\ call.pc = "set"
  /\ watchLog' = call.list
  /\ call' = [call EXCEPT !.pc = "ready", !.list = <<>>]
  /\ UNCHANGED <<now, cfg, lastLogged, playlistLinks, categoryNameCache,
                 task, reply, outbox, popup, markedAt, catHist>>

NextLog ==
  \/ \E v \in VideoIds : AppendGet(v)
  \/ AppendSet

SpecLog == InitLog /\ [][NextLog]_vars

\* ------------------------------------------------------------ dedup guard alone
\* markLogged and recentlyLogged called for a profile, while the clock moves
\* over the instants around the ends of the dedup windows.  A markLogged call
\* is two tasks, the callback of its storage.local.get and the completion of
\* its storage.local.set; call.pending holds the calls between the two.
Instants == { k * WindowMs + d : k \in 0..MaxSpans, d \in 0..MaxOffset }

InitDedup ==
  /\ InitStores
  /\ \E p \in Profiles :
       call = [op |-> "dedup", profile |-> p, videoId |-> "", result |-> Null,
               pending |-> EmptyMap]

\* markLogged(profile, videoId) up to the callback of its get: the object read
\* gets the key stamped with the time of this task and is handed to set.
MarkCallGet(videoId) ==
  /\ call.op = "dedup"
  /\ videoId \notin DOMAIN call.pending
  /\ call' = [call EXCEPT !.pending =
                (videoId :> markLogged(lastLogged, call.profile, videoId, now)) @@ @]
  /\ UNCHANGED <<now, cfg, watchLog, lastLogged, playlistLinks, categoryNameCache,
                 task, reply, outbox, popup, markedAt, catHist>>

\* Its set completes: the object of that call replaces the stored one, and the
\* promise resolves.  markedAt remembers the stamp the call wrote.
MarkCallSet(videoId) ==
  /\ call.op = "dedup"
  /\ videoId \in DOMAIN call.pending
  /\ lastLogged' = call.pending[videoId]
  /\ markedAt' = (<<call.profile, videoId>> :>
                    DateGetTime(call.pending[videoId][dedupKey(call.profile, videoId)])) @@ markedAt
  /\ call' = [call EXCEPT !.result = Null,
                          !.pending = [v \in DOMAIN @ \ {videoId} |-> @[v]]]
  /\ UNCHANGED <<now, cfg, watchLog, playlistLinks, categoryNameCache,
                 task, reply, outbox, popup, catHist>>

\* recentlyLogged(profile, videoId) runs to completion.
CheckCall(videoId) ==
  /\ call.op = "dedup"
  /\ call' = [call EXCEPT !.videoId = videoId,
                          !.result = Some(recentlyLogged(lastLogged, call.profile, videoId, now, TtlMinutes))]
  /\ UNCHANGED <<now, cfg, watchLog, lastLogged, playlistLinks, categoryNameCache,
                 task, reply, outbox, popup, markedAt, catHist>>

TickTo(t) ==
  /\ t > now
  /\ now' = t
  /\ call' = IF call.op = "dedup" THEN [call EXCEPT !.result = Null] ELSE call
  /\ UNCHANGED <<cfg, watchLog, lastLogged, playlistLinks, categoryNameCache,
                 task, reply, outbox, popup, markedAt, catHist>>

NextDedup ==
  \/ \E v \in VideoIds : MarkCallGet(v)
  \/ \E v \in VideoIds : MarkCallSet(v)
  \/ \E v \in VideoIds : CheckCall(v)
  \/ \E t \in Instants : TickTo(t)

SpecDedup == InitDedup /\ [][NextDedup]_vars

\* ------------------------------------------------------------ popup
\* The popup's generatePlaylist and clear handlers, while the background logs
\* intakes without an API key.  Nothing disables the buttons: a click may come
\* while the calls of earlier clicks are in flight.  call counts the clears
\* and records what the stores held when the last one was made.
InitPopup ==
  /\ InitStores
  /\ call = [op |-> "popup", clears |-> 0, hadLog |-> <<>>, hadLinks |-> <<>>]

\* The callback of the k-th generatePlaylist click: the ids of the log, the
\* first 50 of them, the link, and rememberPlaylistLink up to its
\* storage.local.get (window.open follows in the same task).
GeneratePlaylist(k) ==
  /\ popup[k].pc = "idle"
  /\ \A j \in Clicks : j < k => popup[j].pc # "idle"
  /\ LET ids == SelectSeq([n \in 1..Len(watchLog) |-> watchLog[n].videoId], LAMBDA v : v # "")
         first50 == SubSeq(ids, 1, Min({PlaylistMax, Len(ids)}))
     IN  /\ ids # <<>>
         /\ popup' = [popup EXCEPT ![k] =
                        [pc |-> "remember_get",
                         url |-> <<"https://www.youtube.com/watch_videos?video_ids=">> \o first50,
                         count |-> Len(first50), updated |-> <<>>]]
  /\ UNCHANGED <<now, cfg, watchLog, lastLogged, playlistLinks, categoryNameCache,
                 task, reply, outbox, markedAt, catHist, call>>

\* The callback of rememberPlaylistLink's get: push the link, issue the set.
RememberGet(k) ==
  /\ popup[k].pc = "remember_get"
  /\ popup' = [popup EXCEPT ![k].pc = "remember_set",
                            ![k].updated = Append(playlistLinks,
                                [url |-> popup[k].url, count |-> popup[k].count,
                                 createdAt |-> ToISOString(now)])]
  /\ UNCHANGED <<now, cfg, watchLog, lastLogged, playlistLinks, categoryNameCache,
                 task, reply, outbox, markedAt, catHist, call>>

\* rememberPlaylistLink's set completes: the list of that call replaces the
\* stored one.
RememberSet(k) ==
  /\ popup[k].pc = "remember_set"
  /\ playlistLinks' = popup[k].updated
  /\ popup' = [popup EXCEPT ![k] = [IdlePopup EXCEPT !.pc = "done"]]
  /\ UNCHANGED <<now, cfg, watchLog, lastLogged, categoryNameCache,
                 task, reply, outbox, markedAt, catHist, call>>

\* The clear click, confirmed: its storage.local.set completes.
ClearClick ==
  /\ call.op = "popup"
  /\ call.clears < MaxClears
  /\ ClearWrite
  /\ call' = [op |-> "popup", clears |-> call.clears + 1,
              hadLog |-> watchLog, hadLinks |-> playlistLinks]
  /\ UNCHANGED <<now, cfg, lastLogged, categoryNameCache,
                 task, reply, outbox, popup, markedAt, catHist>>

\* A millisecond passes.
TickMs ==
  /\ now < MaxOffset
  /\ now' = now + 1
  /\ UNCHANGED <<cfg, watchLog, lastLogged, playlistLinks, categoryNameCache,
                 task, reply, outbox, popup, markedAt, catHist, call>>

NextPopup ==
  \/ \E i \in IntakeIds : IntakeNoKey(i)
  \/ \E k \in Clicks : GeneratePlaylist(k)
  \/ \E k \in Clicks : RememberGet(k)
  \/ \E k \in Clicks : RememberSet(k)
  \/ ClearClick
  \/ TickMs

SpecPopup == InitPopup /\ [][NextPopup]_vars

\* ------------------------------------------------------------ within one window
\* The extension while the clock advances by milliseconds inside one dedup
\* window: intakes arrive some time after earlier ones were logged.
NextWithin ==
  \/ \E i \in IntakeIds : Intake(i)
  \/ \E k \in ApiKeys : SetConfig(k, "")
  \/ TickMs

SpecWithin == Init /\ [][NextWithin]_vars

\* ------------------------------------------------------------ clear during intakes
\* The popup's clear handler while intakes without an API key are being
\* logged.  call records the last clear: that it completed, and which intakes
\* had completed their append by then.
InitClear ==
  /\ InitStores
  /\ call = [op |-> "clear", done |-> FALSE, hadLog |-> <<>>, appendedBefore |-> {}]

\* The clear click, confirmed: its storage.local.set completes.
ClearDuring ==
  /\ call.op = "clear"
  /\ ClearWrite
  /\ call' = [op |-> "clear", done |-> TRUE, hadLog |-> watchLog,
              appendedBefore |-> {i \in IntakeIds : Did(task[i], "append")}]
  /\ UNCHANGED <<now, cfg, lastLogged, categoryNameCache,
                 task, reply, outbox, popup, markedAt, catHist>>

NextClear ==
  \/ \E i \in IntakeIds : IntakeNoKey(i)
  \/ ClearDuring
  \/ TickMs

SpecClear == InitClear /\ [][NextClear]_vars

\* ------------------------------------------------------------ dedup keys alone
\* markLogged and recentlyLogged called on profile names and video ids some of
\* which contain the separator ":" of the storage key.  A profile name is free
\* text (options.js); a video id is the v parameter of the page URL
\* (content.js).  call.marked holds the pairs whose markLogged has completed,
\* call.pending the markLogged calls between their get and their set.
KeyProfiles == {"Child", "a", "a:b"}
KeyVideoIds == {"c", "b:c"}

InitKeys ==
  /\ InitStores
  /\ call = [op |-> "dedupKey", marked |-> {}, pending |-> EmptyMap,
             profile |-> "", videoId |-> "", result |-> Null]

\* markLogged(profile, videoId) up to the callback of its get: the object read
\* gets the key stamped and is handed to set.
MarkPairGet(profile, videoId) ==
  /\ call.op = "dedupKey"
  /\ <<profile, videoId>> \notin DOMAIN call.pending
  /\ Cardinality(DOMAIN call.pending) < MaxIntakes
  /\ call' = [call EXCEPT !.pending =
                (<<profile, videoId>> :> markLogged(lastLogged, profile, videoId, now)) @@ @]
  /\ UNCHANGED <<now, cfg, watchLog, lastLogged, playlistLinks, categoryNameCache,
                 task, reply, outbox, popup, markedAt, catHist>>

\* Its set completes: the object of that call replaces the stored one.
MarkPairSet(profile, videoId) ==
  /\ call.op = "dedupKey"
  /\ <<profile, videoId>> \in DOMAIN call.pending
  /\ lastLogged' = call.pending[<<profile, videoId>>]
  /\ call' = [call EXCEPT !.marked = @ \cup {<<profile, videoId>>},
                          !.pending = [px \in DOMAIN @ \ {<<profile, videoId>>} |-> @[px]],
                          !.profile = "", !.videoId = "", !.result = Null]
  /\ UNCHANGED <<now, cfg, watchLog, playlistLinks, categoryNameCache,
                 task, reply, outbox, popup, markedAt, catHist>>

\* recentlyLogged(profile, videoId) runs to completion.
CheckPair(profile, videoId) ==
  /\ call.op = "dedupKey"
  /\ call' = [call EXCEPT !.profile = profile, !.videoId = videoId,
                          !.result = Some(recentlyLogged(lastLogged, profile, videoId, now, TtlMinutes))]
  /\ UNCHANGED <<now, cfg, watchLog, lastLogged, playlistLinks, categoryNameCache,
                 task, reply, outbox, popup, markedAt, catHist>>

NextKeys ==
  \/ \E p \in KeyProfiles, x \in KeyVideoIds : MarkPairGet(p, x)
  \/ \E p \in KeyProfiles, x \in KeyVideoIds : MarkPairSet(p, x)
  \/ \E p \in KeyProfiles, x \in KeyVideoIds : CheckPair(p, x)

SpecKeys == InitKeys /\ [][NextKeys]_vars

\* ------------------------------------------------------------ inferIsShorts alone
\* inferIsShorts({ url, durationSeconds }) called on a URL (none, a watch page
\* or a shorts page) and a duration (null or a number of seconds).
Urls == {<<>>} \cup {WatchUrl(v) : v \in VideoIds} \cup {ShortsUrl(v) : v \in VideoIds}
Durations == {Null} \cup {Some(n) : n \in 0..MaxDuration}

InitShorts ==
  /\ InitStores
  /\ call = [op |-> "inferIsShorts", done |-> FALSE, url |-> <<>>,
             durationSeconds |-> Null, result |-> FALSE]

InferCall(url, durationSeconds) ==
  /\ call.op = "inferIsShorts"
  /\ call' = [op |-> "inferIsShorts", done |-> TRUE, url |-> url,
              durationSeconds |-> durationSeconds,
              result |-> inferIsShorts(url, durationSeconds)]
  /\ UNCHANGED <<now, cfg, watchLog, lastLogged, playlistLinks, categoryNameCache,
                 task, reply, outbox, popup, markedAt, catHist>>

NextShorts == \E url \in Urls, d \in Durations : InferCall(url, d)

SpecShorts == InitShorts /\ [][NextShorts]_vars

\* ------------------------------------------------------------ parseISODurationToSeconds alone
\* The decimal digits of a natural number.
RECURSIVE ToDigits(_)
ToDigits(n) ==
  IF n < 10 THEN <<Digits[n + 1]>>
  ELSE ToDigits(n \div 10) \o <<Digits[(n % 10) + 1]>>

\* One component of a duration string: nothing when absent, else n and its unit.
DurField(f, unit) == IF f = Null THEN <<>> ELSE ToDigits(f[1]) \o <<unit>>
\* The string PT[nH][nM][nS] of the components present.
DurationString(h, m, s) ==
  <<"P", "T">> \o DurField(h, "H") \o DurField(m, "M") \o DurField(s, "S")

FieldValues == {Null} \cup {Some(n) : n \in (0..MaxField) \cup {45}}
\* Strings that are not of the form: "", "abc", "P1D", "T5M", "5M".
OtherStrings ==
  { <<>>, <<"a", "b", "c">>, <<"P", "1", "D">>, <<"T", "5", "M">>, <<"5", "M">> }

InitDuration ==
  /\ InitStores
  /\ call = [op |-> "parseISODurationToSeconds", done |-> FALSE, form |-> FALSE,
             h |-> Null, m |-> Null, s |-> Null, iso |-> <<>>, result |-> Null]

\* parseISODurationToSeconds on a string of the form PT[nH][nM][nS].
ParseForm(h, m, s) ==
  /\ call.op = "parseISODurationToSeconds"
  /\ LET iso == DurationString(h, m, s) IN
     call' = [op |-> "parseISODurationToSeconds", done |-> TRUE, form |-> TRUE,
              h |-> h, m |-> m, s |-> s, iso |-> iso,
              result |-> parseISODurationToSeconds(iso)]
  /\ UNCHANGED <<now, cfg, watchLog, lastLogged, playlistLinks, categoryNameCache,
                 task, reply, outbox, popup, markedAt, catHist>>

\* parseISODurationToSeconds on a string that is not of the form.
ParseOther(iso) ==
  /\ call.op = "parseISODurationToSeconds"
  /\ call' = [op |-> "parseISODurationToSeconds", done |-> TRUE, form |-> FALSE,
              h |-> Null, m |-> Null, s |-> Null, iso |-> iso,
              result |-> parseISODurationToSeconds(iso)]
  /\ UNCHANGED <<now, cfg, watchLog, lastLogged, playlistLinks, categoryNameCache,
                 task, reply, outbox, popup, markedAt, catHist>>

NextDuration ==
  \/ \E h, m, s \in FieldValues : ParseForm(h, m, s)
  \/ \E iso \in OtherStrings : ParseOther(iso)

SpecDuration == InitDuration /\ [][NextDuration]_vars

\* ------------------------------------------------------------ claims
\* C1: after every append of a sequence of appends with capacity N the log
\* holds at most N entries; an append over capacity removes exactly the oldest
\* surplus entries, the survivors keep their order and the new entry is last.
C1_CapacityFifo ==
  (call.op = "setLogEntry" /\ call.pc = "ready" /\ call.count > 0) =>
    LET full == Append(call.before, call.entry[1])
        n == Len(watchLog)
        drop == Len(full) - n
    IN  /\ n <= call.cap
        /\ drop = (IF Len(full) > call.cap THEN Len(full) - call.cap ELSE 0)
        /\ \A j \in 1..n : watchLog[j] = full[j + drop]
        /\ watchLog[n] = call.entry[1]

\* An append to a full log of capacity at least 2 has completed.
C1_Overflowed ==
  /\ call.op = "setLogEntry" /\ call.pc = "ready"
  /\ call.cap >= 2
  /\ Len(call.before) = call.cap
  /\ Len(watchLog) = call.cap

\* C2 (as claimed): a recentlyLogged(p, x) returns true exactly when a
\* markLogged(p, x) has completed and less than the TTL has passed since the
\* time T of its last one; it returns false from T + TTL on, and false when
\* (p, x) was never marked.
C2_SuppressedWithinTtlClaim ==
  (call.op = "dedup" /\ call.result # Null) =>
    LET px == <<call.profile, call.videoId>> IN
    call.result[1] = (/\ px \in DOMAIN markedAt
                      /\ now - markedAt[px] < TtlMinutes * MsPerMinute)

\* C10: a step that completes the clear operation leaves the log store and
\* the playlist-link history both empty, whatever they held before: one write
\* resets the two together.
C10_ClearEmptiesBoth ==
  [][(call.op = "popup" /\ call'.clears = call.clears + 1) =>
       (watchLog' = <<>> /\ playlistLinks' = <<>>)]_vars

\* A clear of a log and a link history that both held something has completed.
C10_ClearedNonEmpty ==
  /\ call.op = "popup" /\ call.clears > 0
  /\ call.hadLog # <<>>
  /\ call.hadLinks # <<>>
  /\ watchLog = <<>> /\ playlistLinks = <<>>

\* Steps an intake has taken that write to a store or notify.
Wrote(t) == Did(t, "append") \/ Did(t, "mark") \/ Did(t, "notify")
\* Catalog network calls an intake has issued.
Called(t) == Did(t, "videos.list") \/ Did(t, "videoCategories.list") \/ Did(t, "channels.list")
\* The key was found set and the intake was not suppressed.
Unsuppressed(t) == Did(t, "dedup") /\ t.pc # "SUPPRESSED"

\* C3 (as claimed): the primary fetch makes at most 4 attempts; when all 4 fail
\* the error is raised, the intake is aborted and writes nothing; when attempts
\* 1 to 3 fail and attempt 4 succeeds the intake is not aborted.
C3_RetryBoundClaim ==
  \A i \in IntakeIds :
    LET t == task[i] IN
    /\ t.attempt <= DefaultMaxRetries
    /\ Did(t, "fetch.lastAttemptFailed") =>
         (t.pc = "FAILED" /\ t.failedAt = "fetch" /\ t.err # Null /\ ~Wrote(t))
    /\ (t.pc = "FAILED" /\ t.attempt = DefaultMaxRetries) => Did(t, "fetch.lastAttemptFailed")

\* C4: an intake whose primary fetch failed for good is over: it has written no
\* entry, marked no key and sent no message, and the step in which the fetch
\* gave up changed neither the log store nor the dedup table nor the outbox.
C4_FetchFailedWritesNothing ==
  /\ [](\A i \in IntakeIds :
          Did(task[i], "fetch.lastAttemptFailed") =>
            (task[i].pc = "FAILED" /\ task[i].entry = Null /\ ~Wrote(task[i])))
  /\ [][\A i \in IntakeIds :
          (task[i].pc = "fetch" /\ Did(task'[i], "fetch.lastAttemptFailed")) =>
            UNCHANGED <<watchLog, lastLogged, outbox>>]_vars

\* The fetch of an intake failed on all four attempts while the log held an entry.
C4_FetchFailed ==
  \E i \in IntakeIds :
    /\ task[i].pc = "FAILED" /\ task[i].failedAt = "fetch"
    /\ task[i].attempt = DefaultMaxRetries
    /\ watchLog # <<>>

\* C5: an unsuppressed intake that read an empty API key issues no catalog
\* call, is never aborted, builds an entry with null title, description and
\* duration whose isShorts is "the URL contains /shorts/", and goes through
\* append, mark and notification.
C5_FallbackPath ==
  \A i \in IntakeIds :
    LET t == task[i] IN
    (Unsuppressed(t) /\ t.apiKey = "") =>
      /\ ~Called(t)
      /\ t.pc \in {"setLogEntry_get", "setLogEntry_set", "markLogged_get", "markLogged_set", "NOTIFY"}
      /\ t.entry # Null =>
           /\ t.entry[1].title = Null
           /\ t.entry[1].description = Null
           /\ t.entry[1].durationSeconds = Null
           /\ t.entry[1].isShorts = Includes(t.url, "/shorts/")
      /\ t.pc = "NOTIFY" => (Did(t, "append") /\ Did(t, "mark") /\ Did(t, "notify"))
      /\ (t.pc \in {"markLogged_get", "markLogged_set"}) => Did(t, "append")

\* Two intakes without a key have been notified, one of a short and one of a
\* watch page.
C5_FallbackLogged ==
  \E i, j \in IntakeIds :
    /\ task[i].pc = "NOTIFY" /\ task[i].apiKey = "" /\ Includes(task[i].url, "/shorts/")
    /\ task[j].pc = "NOTIFY" /\ task[j].apiKey = "" /\ ~Includes(task[j].url, "/shorts/")
    /\ Len(outbox) = 2

\* C6 (as claimed): two lookups for the same key issue one network call: once
\* a lookup for a key has returned, a later lookup for it issues no call.
C6_OneCallClaim ==
  [][\A k \in DOMAIN catHist :
       catHist[k].returned >= 1 => catHist'[k].calls = catHist[k].calls]_vars

\* C6 (amended): once a lookup for a key got a success response (a name or no
\* matching category) the key is cached, no later lookup for it issues a
\* network call, and no cached key is ever removed.
C6_CachedAfterAnswer ==
  /\ [](\A k \in DOMAIN catHist : catHist[k].answered => k \in DOMAIN categoryNameCache)
  /\ [][\A k \in DOMAIN catHist :
          catHist[k].answered => catHist'[k].calls = catHist[k].calls]_vars
  /\ [][\A k \in DOMAIN categoryNameCache : k \in DOMAIN categoryNameCache']_vars

\* A second lookup for a key cached as "not found" was answered without a call.
C6_NotFoundHit ==
  \E k \in DOMAIN catHist :
    /\ catHist[k].answered
    /\ k \in DOMAIN categoryNameCache /\ categoryNameCache[k] = Null
    /\ catHist[k].lookups = 2 /\ catHist[k].calls = 1

\* C7 (as claimed): a failed category or channel lookup never aborts the intake.
C7_EnrichmentNeverAbortsClaim ==
  \A i \in IntakeIds : task[i].enrichFailed => task[i].pc # "FAILED"

\* C8: whatever happens to an intake, its logYouTubeWatch call never rejects
\* and the reply to its YTL_VIDEO message is {ok: true}.
C8_ReplyAlwaysOk ==
  \A i \in IntakeIds :
    /\ task[i].pc # "REJECTED"
    /\ task[i].pc # "idle" => reply[i] = Some([ok |-> TRUE])
    /\ task[i].pc = "idle" => reply[i] = Null

\* One intake failed and another was logged; both got the same reply.
C8_FailedAndLogged ==
  \E i, j \in IntakeIds :
    /\ task[i].pc = "FAILED" /\ task[j].pc = "NOTIFY"
    /\ reply[i] = reply[j] /\ reply[i] # Null

\* C9 (as claimed): no dedup mark and no notification follow a log append whose
\* write failed.
C9_NoStepAfterFailedAppendClaim ==
  \A i \in IntakeIds :
    Did(task[i], "append.lastError") => (~Did(task[i], "mark") /\ ~Did(task[i], "notify"))

\* The position of a step in the lifeline of an intake: dedup check, primary
\* fetch, log append, dedup mark, notification (0 for any other event).  A
\* storage write that failed has completed all the same.
StepRank(e) ==
  CASE e = "dedup" -> 1
    [] e = "videos.list" -> 2
    [] e \in {"append", "append.lastError"} -> 3
    [] e \in {"mark", "mark.lastError"} -> 4
    [] e = "notify" -> 5
    [] OTHER -> 0

\* C11: in the history of every intake the dedup check, the primary fetch, the
\* log append, the dedup mark and the notification appear in that order, each
\* at most once, and no step appears without the steps before it (the primary
\* fetch alone may be absent: without an API key none is made).
C11_StepOrder ==
  \A i \in IntakeIds :
    LET tr == task[i].trace
        steps == { k \in 1..Len(tr) : StepRank(tr[k]) > 0 }
    IN  /\ \A j, k \in steps : j < k => StepRank(tr[j]) < StepRank(tr[k])
        /\ \A k \in steps :
             \A r \in (1..(StepRank(tr[k]) - 1)) \ {2} :
               \E j \in steps : j < k /\ StepRank(tr[j]) = r
        /\ (task[i].apiKey # "" /\ \E k \in steps : StepRank(tr[k]) >= 3) =>
             \E j \in steps : StepRank(tr[j]) = 2

\* An intake with an API key went through all five steps.
C11_AllFiveSteps ==
  \E i \in IntakeIds :
    /\ task[i].pc = "NOTIFY"
    /\ Did(task[i], "videos.list")
    /\ Did(task[i], "append") /\ Did(task[i], "mark") /\ Did(task[i], "notify")

\* C12: inferIsShorts is true for every URL with the "/shorts/" segment,
\* whatever the duration; for any other URL it is true exactly when the
\* duration is a number <= 60, and false when the duration is null.
C12_ShortsRule ==
  (call.op = "inferIsShorts" /\ call.done) =>
    LET short == \E k \in 1..Len(call.url) : call.url[k] = "/shorts/"
        d == call.durationSeconds
    IN  /\ short => call.result = TRUE
        /\ (~short /\ d = Null) => call.result = FALSE
        /\ (~short /\ d # Null /\ d[1] <= 60) => call.result = TRUE
        /\ (~short /\ d # Null /\ d[1] > 60) => call.result = FALSE

\* A watch page with a duration of exactly 60 seconds was judged a short.
C12_SixtySeconds ==
  /\ call.op = "inferIsShorts" /\ call.done
  /\ call.url = WatchUrl("v1")
  /\ call.durationSeconds = Some(60)
  /\ call.result = TRUE

\* Seconds of the components present (an absent component counts 0).
FieldOr0(f) == IF f = Null THEN 0 ELSE f[1]

\* C13 (as claimed): a string PT[nH][nM][nS] gives hours*3600 + minutes*60 +
\* seconds over the components present, and the result is null whenever no
\* field H, M or S matched: for "", for a string not of the form, and for the
\* string with no component.
C13_DurationClaim ==
  (call.op = "parseISODurationToSeconds" /\ call.done) =>
    IF call.form /\ (call.h # Null \/ call.m # Null \/ call.s # Null)
    THEN call.result = Some(FieldOr0(call.h) * 3600 + FieldOr0(call.m) * 60 + FieldOr0(call.s))
    ELSE call.result = Null

\* C14: the suppression check and the mark are separate steps of an intake.
\* The dedup table is written only by the step that completes an intake's
\* markLogged, after its append; the check writes nothing, and it passes
\* whenever the table holds no fresh record for the key, whatever other
\* intakes for that key are in flight.
C14_CheckAndMarkApart ==
  /\ [][lastLogged' # lastLogged =>
          \E i \in IntakeIds :
            /\ task[i].pc = "markLogged_set" /\ task'[i].pc = "NOTIFY"
            /\ Did(task[i], "append")]_vars
  /\ [][\A j \in IntakeIds :
          (/\ task[j].pc = "recentlyLogged" /\ task'[j].pc # "recentlyLogged"
           /\ \/ dedupKey(task[j].profile, task[j].videoId) \notin DOMAIN lastLogged
              \/ now - DateGetTime(lastLogged[dedupKey(task[j].profile, task[j].videoId)])
                    >= TtlMinutes * MsPerMinute)
          => task'[j].pc # "SUPPRESSED"]_vars

\* Two intakes for the same profile and video have both passed the check and
\* both appended their entry before either marked the key: the log holds an
\* entry of each, written within the window of the other.
C14_BothAppended ==
  \E i, j \in IntakeIds :
    /\ i # j
    /\ task[i].videoId = task[j].videoId /\ task[i].profile = task[j].profile
    /\ task[i].pc = "markLogged_get" /\ task[j].pc = "markLogged_get"
    /\ dedupKey(task[i].profile, task[i].videoId) \notin DOMAIN lastLogged
    /\ Len(watchLog) = 2
    /\ watchLog[1].videoId = task[i].videoId /\ watchLog[2].videoId = task[i].videoId
    /\ watchLog[1].profile = task[i].profile /\ watchLog[2].profile = task[i].profile
    /\ DateGetTime(watchLog[2].watchedAt) - DateGetTime(watchLog[1].watchedAt)
         < TtlMinutes * MsPerMinute

\* C15: the write of an append stores the list built from what the append
\* read, whatever the log holds by then.  When another append has written in
\* between, its entries are dropped: the log does not grow, it keeps what was
\* read and ends with the entry of the later writer alone.
C15_StaleWriteClobbers ==
  [][\A j \in IntakeIds :
       (task[j].pc = "setLogEntry_set" /\ Did(task'[j], "append")) =>
         /\ watchLog' = task[j].list
         /\ Did(task'[j], "append.clobber") =>
              /\ Len(watchLog') <= Len(watchLog)
              /\ watchLog'[Len(watchLog')] = task[j].entry[1]
              /\ \A k \in 1..(Len(watchLog') - 1) : watchLog'[k] = watchLog[k]]_vars

\* Two intakes of different videos read the log before either wrote it; both
\* went on to mark and notify, and the log holds the entry of one of them only.
C15_EntryLost ==
  \E i, j \in IntakeIds :
    /\ i # j /\ task[i].videoId # task[j].videoId
    /\ task[i].pc = "NOTIFY" /\ task[j].pc = "NOTIFY"
    /\ Did(task[i], "append") /\ ~Did(task[i], "append.clobber")
    /\ Did(task[j], "append.clobber")
    /\ Len(outbox) = 2
    /\ \E k \in 1..2 : outbox[k].entry.videoId = task[i].videoId
    /\ Len(watchLog) = 1
    /\ watchLog[1].videoId = task[j].videoId

\* C16 (as claimed): the dedup check is the first step of an intake, and a
\* suppressed intake never reads the configuration.
C16_DedupFirstClaim ==
  \A i \in IntakeIds :
    /\ task[i].trace # <<>> => task[i].trace[1] = "dedup"
    /\ task[i].pc = "SUPPRESSED" => ~Did(task[i], "config")

\* C16 (amended): the configuration read is the first step of every intake and
\* the dedup check the second, made for the profile that was read; a
\* suppressed intake has read the configuration and done nothing else.
C16_ConfigThenDedup ==
  \A i \in IntakeIds :
    LET t == task[i] IN
    /\ t.trace # <<>> => t.trace[1] = "config"
    /\ Did(t, "dedup") => (Len(t.trace) >= 2 /\ t.trace[2] = "dedup")
    /\ \A k \in 3..Len(t.trace) : t.trace[k] \notin {"config", "dedup"}
    /\ t.pc = "SUPPRESSED" => t.trace = <<"config", "dedup">>

\* An intake was suppressed, under the profile it had read from the configuration.
C16_SuppressedAfterConfig ==
  \E i \in IntakeIds :
    /\ task[i].pc = "SUPPRESSED"
    /\ task[i].trace = <<"config", "dedup">>
    /\ task[i].profile = cfg.profile
    /\ dedupKey(task[i].profile, task[i].videoId) \in DOMAIN lastLogged

\* C17: a suppressed intake has read the configuration and run the dedup check
\* and nothing else: no catalog call, no append, no mark, no notification; and
\* its two steps leave the log store, the dedup table (so the timestamp of its
\* key), the category cache and the outbox unchanged.
C17_SuppressedChangesNothing ==
  /\ [](\A i \in IntakeIds :
          task[i].pc = "SUPPRESSED" =>
            (task[i].trace = <<"config", "dedup">> /\ ~Called(task[i]) /\ ~Wrote(task[i])))
  /\ [][\A i \in IntakeIds :
          (/\ task[i].pc \in {"getConfig", "recentlyLogged"}
           /\ task'[i].pc \in {"recentlyLogged", "SUPPRESSED"}
           /\ task'[i] # task[i])
          => UNCHANGED <<watchLog, lastLogged, categoryNameCache, outbox, catHist>>]_vars

\* An intake was suppressed some time after the video was logged with its
\* category cached: the record still carries the time of that log.
C17_SuppressedLater ==
  \E i \in IntakeIds :
    LET key == dedupKey(task[i].profile, task[i].videoId) IN
    /\ task[i].pc = "SUPPRESSED"
    /\ key \in DOMAIN lastLogged
    /\ DateGetTime(lastLogged[key]) < now
    /\ categoryNameCache # EmptyMap
    /\ Len(watchLog) = 1 /\ Len(outbox) = 1

\* C18: the delays an intake has taken between the attempts of its primary
\* fetch are 300, 600, 900 ms in that order, one after each failed attempt
\* that is not the last: at most three, exactly three when the last attempt
\* has failed, and a successful attempt is followed by no delay.
C18_LinearBackoff ==
  /\ [](\A i \in IntakeIds :
          LET t == task[i] IN
          /\ Len(t.slept) = t.attempt
          /\ Len(t.slept) <= 3
          /\ t.slept = SubSeq(<<300, 600, 900>>, 1, Len(t.slept))
          /\ t.pc = "sleep" => Len(t.slept) >= 1
          /\ Did(t, "fetch.lastAttemptFailed") => t.slept = <<300, 600, 900>>)
  /\ [][\A i \in IntakeIds :
          (task[i].pc = "fetch" /\ task'[i].pc \notin {"fetch", "sleep", "FAILED"}) =>
            (task'[i].pc # "sleep" /\ task'[i].slept \in {task[i].slept, <<>>})]_vars
  /\ [][\A i \in IntakeIds :
          (task[i].pc = "fetch" /\ task'[i].pc = "sleep") =>
            task'[i].slept = Append(task[i].slept, 300 * (task[i].attempt + 1))]_vars

\* The fetch of an intake failed four times, with delays of 300, 600 and 900 ms.
C18_ThreeDelays ==
  \E i \in IntakeIds :
    /\ task[i].pc = "FAILED" /\ task[i].failedAt = "fetch"
    /\ Did(task[i], "fetch.lastAttemptFailed")
    /\ task[i].slept = <<300, 600, 900>>

\* C19 (as claimed): when every call eventually returns, every intake that has
\* started eventually reaches SUPPRESSED, FETCH_FAILED (its primary fetch has
\* failed for good) or NOTIFY.
C19_ReachesEndStateClaim ==
  \A i \in IntakeIds :
    (task[i].pc # "idle") ~>
      (\/ task[i].pc \in {"SUPPRESSED", "NOTIFY"}
       \/ (task[i].pc = "FAILED" /\ task[i].failedAt = "fetch"))

\* C20 (as claimed): once no intake is in flight, every intake that appended
\* its entry, marked its key and notified has a record for its own key in the
\* dedup table.
C20_NotifiedKeyIsMarkedClaim ==
  (\A i \in IntakeIds : task[i].pc \in EndStates \cup {"idle"}) =>
    \A i \in IntakeIds :
      (task[i].pc = "NOTIFY" /\ Did(task[i], "append") /\ Did(task[i], "mark")) =>
        dedupKey(task[i].profile, task[i].videoId) \in DOMAIN lastLogged

\* C21 (as claimed): once a clear has completed the log holds only entries
\* appended since: no more entries than there are intakes whose append
\* completed after that clear, so none of the entries it held before.
C21_ClearedEntriesStayGoneClaim ==
  (call.op = "clear" /\ call.done) =>
    Len(watchLog) <=
      Cardinality({i \in IntakeIds : Did(task[i], "append")} \ call.appendedBefore)

\* C22 (as claimed): the suppression check for (q, y) is true only when the
\* pair (q, y) itself was marked, for every profile and video id string,
\* also those that contain ":".
C22_DistinctPairsDistinctRecordsClaim ==
  (call.op = "dedupKey" /\ call.result = Some(TRUE)) =>
    <<call.profile, call.videoId>> \in call.marked

====
